---- MODULE Spec2Model ----
(***************************************************************************)
(* AnnotatableQuerySet (annotatable_properties/managers.py): sort() and    *)
(* annotate_property() over a table of records, together with the parts   *)
(* of the queryset they rely on (iteration, extra(select=...), order_by,   *)
(* filter).  Text that the code builds with f-strings and repr() is kept   *)
(* as sequences of characters and read back by the SQL literal rules.      *)
(***************************************************************************)
EXTENDS Integers, Sequences, FiniteSets, TLC

\* ------------------------------------------------------------ bounds
MaxRecords == 2

Costs == {1, 2}
Prices == {1, 2}

\* ------------------------------------------------------------ state
\* table: the rows of the model's table, in the order the database returns them;
\* objs: the queryset objects made so far (an object is its index); last: the last
\* call, its arguments and its outcome; pc: where the caller stands in a chain
\* Model.objects.<first call>(...).<chained call>(...).
VARIABLES table, objs, last, pc
vars == <<table, objs, last, pc>>

\* ------------------------------------------------------------ values
\* A Python value: None, int, float (n counts tenths), str (s its characters).
NoneV == [t |-> "none", n |-> 0, s |-> <<>>]
IntV(n) == [t |-> "int", n |-> n, s |-> <<>>]
FloatV(n) == [t |-> "float", n |-> n, s |-> <<>>]
StrV(s) == [t |-> "str", n |-> 0, s |-> s]

Names == {NoneV, StrV(<<"a">>), StrV(<<"b">>)}

\* Python ==: same type and value, or an int and a float of the same number.
Num10(v) == IF v.t = "int" THEN v.n * 10 ELSE v.n
IsNum(v) == v.t \in {"int", "float"}
PyEq(x, y) == IF IsNum(x) /\ IsNum(y) THEN Num10(x) = Num10(y) ELSE x = y

\* ------------------------------------------------------------ text
DigitChars == <<"0", "1", "2", "3", "4", "5", "6", "7", "8", "9">>
IsDigit(c) == \E i \in 1..10 : DigitChars[i] = c
DigitVal(c) == (CHOOSE i \in 1..10 : DigitChars[i] = c) - 1

\* f"{pk}", f"{order}", repr(int): the decimal digits.
RECURSIVE IntStr(_)
IntStr(n) ==
  IF n < 0 THEN <<"-">> \o IntStr(-n)
  ELSE IF n < 10 THEN <<DigitChars[n + 1]>>
  ELSE IntStr(n \div 10) \o <<DigitChars[(n % 10) + 1]>>

HasChar(s, c) == \E i \in 1..Len(s) : s[i] = c

RECURSIVE EscapeStr(_, _)
EscapeStr(s, q) ==
  IF s = <<>> THEN <<>>
  ELSE (IF Head(s) = "\\" THEN <<"\\", "\\">>
        ELSE IF Head(s) = q THEN <<"\\", q>>
        ELSE <<Head(s)>>) \o EscapeStr(Tail(s), q)

\* repr(str): single quotes, double quotes when the text holds ' and no ".
StrRepr(s) ==
  LET q == IF HasChar(s, "'") /\ ~HasChar(s, "\"") THEN "\"" ELSE "'"
  IN <<q>> \o EscapeStr(s, q) \o <<q>>

\* repr(annotated_property)
PyRepr(v) ==
  CASE v.t = "int" -> IntStr(v.n)
    [] v.t = "float" -> IntStr(v.n \div 10) \o <<".">> \o <<DigitChars[(v.n % 10) + 1]>>
    [] v.t = "str" -> StrRepr(v.s)
    [] OTHER -> <<"N", "o", "n", "e">>

\* ------------------------------------------------------------ SQL literals
AllDigits(s) == s # <<>> /\ \A i \in 1..Len(s) : IsDigit(s[i])

RECURSIVE ParseNat(_)
ParseNat(s) ==
  IF s = <<>> THEN 0
  ELSE ParseNat(SubSeq(s, 1, Len(s) - 1)) * 10 + DigitVal(s[Len(s)])

\* The body of a '...' literal: '' stands for one quote, a lone ' ends it early.
RECURSIVE SqlUnquote(_)
SqlUnquote(b) ==
  IF b = <<>> THEN [ok |-> TRUE, s |-> <<>>]
  ELSE IF Head(b) = "'"
    THEN IF Len(b) >= 2 /\ b[2] = "'"
         THEN LET r == SqlUnquote(SubSeq(b, 3, Len(b)))
              IN [ok |-> r.ok, s |-> <<"'">> \o r.s]
         ELSE [ok |-> FALSE, s |-> <<>>]
    ELSE LET r == SqlUnquote(Tail(b))
         IN [ok |-> r.ok, s |-> <<Head(b)>> \o r.s]

SqlError == [ok |-> FALSE, v |-> NoneV]
SqlOk(v) == [ok |-> TRUE, v |-> v]

\* The value the database gives the text of a THEN (or id =) operand: an integer,
\* a decimal with one fractional digit, a '...' string; any other text (a bare
\* word such as None is read as a column name) is no literal and the statement
\* is refused.
SqlLiteral(text) ==
  IF AllDigits(text) THEN SqlOk(IntV(ParseNat(text)))
  ELSE IF Len(text) >= 2 /\ Head(text) = "-" /\ AllDigits(Tail(text))
    THEN SqlOk(IntV(0 - ParseNat(Tail(text))))
  ELSE IF Len(text) >= 3 /\ text[Len(text) - 1] = "."
          /\ AllDigits(SubSeq(text, 1, Len(text) - 2)) /\ IsDigit(text[Len(text)])
    THEN SqlOk(FloatV(ParseNat(SubSeq(text, 1, Len(text) - 2)) * 10
                      + DigitVal(text[Len(text)])))
  ELSE IF Len(text) >= 2 /\ Head(text) = "'" /\ text[Len(text)] = "'"
    THEN LET r == SqlUnquote(SubSeq(text, 2, Len(text) - 1))
         IN IF r.ok THEN SqlOk(StrV(r.s)) ELSE SqlError
  ELSE SqlError

\* ------------------------------------------------------------ ordering of values
\* Code-point order of the characters used.
Alphabet == <<"\"", "'", "\\", "a", "b">>
CharOrd(c) == CHOOSE i \in 1..Len(Alphabet) : Alphabet[i] = c

RECURSIVE StrLT(_, _)
StrLT(a, b) ==
  IF b = <<>> THEN FALSE
  ELSE IF a = <<>> THEN TRUE
  ELSE IF Head(a) = Head(b) THEN StrLT(Tail(a), Tail(b))
  ELSE CharOrd(Head(a)) < CharOrd(Head(b))

\* x < y for two numbers or two strings; in ORDER BY a NULL sorts before anything
\* else (in sorted() a None never gets here: see SortRaises).
ValLT(x, y) ==
  IF x.t = "none" THEN y.t # "none"
  ELSE IF y.t = "none" THEN FALSE
  ELSE IF IsNum(x) /\ IsNum(y) THEN Num10(x) < Num10(y)
  ELSE StrLT(x.s, y.s)

\* Tuple comparison: the first differing position decides.
RECURSIVE TupLT(_, _)
TupLT(a, b) ==
  IF b = <<>> THEN FALSE
  ELSE IF a = <<>> THEN TRUE
  ELSE IF PyEq(Head(a), Head(b)) THEN TupLT(Tail(a), Tail(b))
  ELSE ValLT(Head(a), Head(b))

Reverse(s) == [i \in 1..Len(s) |-> s[Len(s) + 1 - i]]

\* Stable sort of <<[key, item]>> by key: each element goes after its equals.
RECURSIVE InsertStable(_, _)
InsertStable(x, xs) ==
  IF xs = <<>> THEN <<x>>
  ELSE IF TupLT(x.key, Head(xs).key) THEN <<x>> \o xs
  ELSE <<Head(xs)>> \o InsertStable(x, Tail(xs))

RECURSIVE StableSort(_)
StableSort(xs) ==
  IF xs = <<>> THEN <<>>
  ELSE InsertStable(xs[Len(xs)], StableSort(SubSeq(xs, 1, Len(xs) - 1)))

\* ------------------------------------------------------------ records and keys
\* The tables: up to MaxRecords records.  The database returns rows in an order
\* of its own, here newest first, so that the order of the rows is not the order
\* of their identifiers; the identifiers start at 9, so that one- and two-digit
\* ones both occur.
Attrs == [cost : Costs, price : Prices, name : Names]
TablesOf(n) ==
  {[i \in 1..n |-> [pk |-> 9 + n - i, cost |-> a[i].cost, price |-> a[i].price,
                    name |-> a[i].name]] : a \in [1..n -> Attrs]}
Tables == UNION {TablesOf(n) : n \in 0..MaxRecords}

ModelFields == {"pk", "cost", "price", "name"}

\* getattr(obj, attr) for a field of the model
GetAttr(r, attr) ==
  CASE attr = "pk" -> IntV(r.pk)
    [] attr = "cost" -> IntV(r.cost)
    [] attr = "price" -> IntV(r.price)
    [] OTHER -> r.name

\* The callable of the docstrings, lambda x: x.cost / x.price: true division, a
\* float (in tenths: exact for the prices 1 and 2).
Callable(fn, r) == FloatV((r.cost * 10) \div r.price)

\* A key or annotation argument: a str, a tuple of str, or a callable.
StrKey(a) == [kind |-> "str", attrs |-> <<a>>, fn |-> ""]
TupleKey(a, b) == [kind |-> "tuple", attrs |-> <<a, b>>, fn |-> ""]
CallableKey(f) == [kind |-> "callable", attrs |-> <<>>, fn |-> f]
NoKey == [kind |-> "", attrs |-> <<>>, fn |-> ""]

\* TupleGetter keeping the first attribute only.
TupleGetterFirst(attrs, r) == <<GetAttr(r, attrs[1])>>

\* attrgetter(*key) of a tuple: the tuple of the attributes, in the order given.
TupleGetter(attrs, r) == [i \in 1..Len(attrs) |-> GetAttr(r, attrs[i])]

\* The key after lines 26-30, applied to r: attrgetter(key) gives the attribute
\* itself, attrgetter(*key) a tuple, a callable its own result.
KeyFn(key, r) ==
  CASE key.kind = "str" -> [scalar |-> TRUE, items |-> <<GetAttr(r, key.attrs[1])>>]
    [] key.kind = "tuple" -> [scalar |-> FALSE, items |-> TupleGetter(key.attrs, r)]
    [] OTHER -> [scalar |-> TRUE, items |-> <<Callable(key.fn, r)>>]

\* sorted() compares every element with another one; None < x raises TypeError.
SortRaises(rows, key) ==
  /\ Len(rows) >= 2
  /\ \E i \in 1..Len(rows) :
       KeyFn(key, rows[i]).scalar /\ KeyFn(key, rows[i]).items[1].t = "none"

\* PySorted reversing the sorted list only: equal keys come out exchanged.
PySortedFlip(rows, key, reverse) ==
  LET pairs == [i \in 1..Len(rows) |-> [key |-> KeyFn(key, rows[i]).items, item |-> rows[i]]]
      s == IF reverse THEN Reverse(StableSort(pairs)) ELSE StableSort(pairs)
  IN [i \in 1..Len(s) |-> s[i].item]

\* sorted(self, key=key, reverse=reverse): stable; with reverse the list is
\* reversed, sorted and reversed again, so equal keys keep their order.
PySorted(rows, key, reverse) ==
  LET pairs == [i \in 1..Len(rows) |-> [key |-> KeyFn(key, rows[i]).items, item |-> rows[i]]]
      s == IF reverse THEN Reverse(StableSort(Reverse(pairs))) ELSE StableSort(pairs)
  IN [i \in 1..Len(s) |-> s[i].item]

\* ------------------------------------------------------------ dict
\* DictSet without the search for the key: the item is added at the end.
DictAppend(d, k, v) == Append(d, [k |-> k, v |-> v])

\* d[k] = v: a key already there keeps its place and takes the new value.
DictSet(d, k, v) ==
  IF \E i \in 1..Len(d) : d[i].k = k
  THEN [i \in 1..Len(d) |-> IF d[i].k = k THEN [k |-> k, v |-> v] ELSE d[i]]
  ELSE Append(d, [k |-> k, v |-> v])

HasKey(d, k) == \E i \in 1..Len(d) : d[i].k = k
Lookup(d, k) == d[CHOOSE i \in 1..Len(d) : d[i].k = k /\ \A j \in 1..(i - 1) : d[j].k # k].v

\* ------------------------------------------------------------ the synthesized SQL
\* SortMapping counting from 1.
RECURSIVE SortMappingFromOne(_, _)
SortMappingFromOne(sorted_objects, n) ==
  IF n = 0 THEN <<>>
  ELSE DictSet(SortMappingFromOne(sorted_objects, n - 1), sorted_objects[n].pk, n)

\* {obj.pk: order for order, obj in enumerate(sorted_objects)}, the first n objects
RECURSIVE SortMapping(_, _)
SortMapping(sorted_objects, n) ==
  IF n = 0 THEN <<>>
  ELSE DictSet(SortMapping(sorted_objects, n - 1), sorted_objects[n].pk, n - 1)

\* "CASE WHEN id = {pk} THEN {order} ... END": one branch per item of the mapping.
SortSql(pk_mapping) ==
  [i \in 1..Len(pk_mapping) |->
     [pk |-> IntStr(pk_mapping[i].k), val |-> IntStr(pk_mapping[i].v)]]

\* {obj.pk: annotation(obj) for obj in self}, the first n objects
RECURSIVE AnnMapping(_, _, _)
AnnMapping(rows, annotation, n) ==
  IF n = 0 THEN <<>>
  ELSE DictSet(AnnMapping(rows, annotation, n - 1), rows[n].pk,
               KeyFn(annotation, rows[n]).items[1])

\* "CASE WHEN id = {pk} THEN {repr(annotated_property)} ... END"
AnnSql(pk_mapping) ==
  [i \in 1..Len(pk_mapping) |->
     [pk |-> IntStr(pk_mapping[i].k), val |-> PyRepr(pk_mapping[i].v)]]

\* ------------------------------------------------------------ the queryset
\* where: the filters; extra: the extra(select=...) dict, name -> CASE branches;
\* order: the order_by names.
BaseQs == [where |-> <<>>, extra |-> <<>>, order |-> <<>>]

\* Extra adding the field at the end and keeping a field of the same name.
ExtraStack(q, name, sql) == [q EXCEPT !.extra = DictAppend(@, name, sql)]

\* extra(select={name: sql}): the select dict is updated.
Extra(q, name, sql) == [q EXCEPT !.extra = DictSet(@, name, sql)]

\* order_by(name): the ordering is replaced.
OrderBy(q, name) == [q EXCEPT !.order = <<name>>]

\* The database's reading of one CASE: each WHEN id = <pk> THEN <val> with its two
\* operands as SQL literals.
ParseCase(branches) ==
  [i \in 1..Len(branches) |->
     [pk |-> SqlLiteral(branches[i].pk), val |-> SqlLiteral(branches[i].val)]]

\* A CASE with no branch, or with an operand that is no literal, is refused by
\* the database whatever the rows are.
SqlValid(arms) ==
  /\ arms # <<>>
  /\ \A i \in 1..Len(arms) : arms[i].pk.ok /\ arms[i].val.ok

\* The CASE for the row with this id: the first branch that matches, else NULL.
CaseValue(arms, id) ==
  IF \E i \in 1..Len(arms) : arms[i].pk.v = IntV(id)
  THEN arms[CHOOSE i \in 1..Len(arms) :
              arms[i].pk.v = IntV(id) /\ \A j \in 1..(i - 1) : arms[j].pk.v # IntV(id)].val.v
  ELSE NoneV

Matches(r, p) == PyEq(GetAttr(r, p.field), p.value)

\* Iterating the queryset: the rows of the table that pass the filters, each with
\* its extra select values as attributes, in the order_by order (ascending).
Materialize(q) ==
  LET cases == [i \in 1..Len(q.extra) |-> ParseCase(q.extra[i].v)]
  IN IF \E i \in 1..Len(cases) : ~SqlValid(cases[i])
     THEN [ok |-> FALSE, rows |-> <<>>]
     ELSE
       LET kept == SelectSeq(table, LAMBDA r : \A i \in 1..Len(q.where) : Matches(r, q.where[i]))
           rows == [i \in 1..Len(kept) |->
                      [pk |-> kept[i].pk, cost |-> kept[i].cost, price |-> kept[i].price,
                       name |-> kept[i].name,
                       extras |-> [e \in 1..Len(q.extra) |->
                                     [k |-> q.extra[e].k, v |-> CaseValue(cases[e], kept[i].pk)]]]]
           pairs == [i \in 1..Len(rows) |->
                       [key |-> [j \in 1..Len(q.order) |-> Lookup(rows[i].extras, q.order[j])],
                        item |-> rows[i]]]
           s == StableSort(pairs)
       IN [ok |-> TRUE, rows |-> [i \in 1..Len(s) |-> s[i].item]]

\* ------------------------------------------------------------ the calls
NoProp == [given |-> FALSE, name |-> ""]
GivenProp(n) == [given |-> TRUE, name |-> n]
NoPred == [field |-> "", value |-> NoneV]

\* The arguments the calls are made with.
SortKeys == {StrKey("name"), TupleKey("cost", "price"), CallableKey("ratio")}
AnnotateArgs == {<<StrKey("name"), NoProp>>, <<CallableKey("ratio"), NoProp>>,
                 <<CallableKey("ratio"), GivenProp("ratio")>>}
Preds == {[field |-> "cost", value |-> IntV(1)],
          [field |-> "ratio", value |-> FloatV(10)]}

Call(op, recv, key, reverse, prop, pred, res, err) ==
  [op |-> op, recv |-> recv, key |-> key, reverse |-> reverse, prop |-> prop,
   pred |-> pred, res |-> res, err |-> err]

\* What a call leaves: the objects, the object returned (0 when it raised), the error.
Raised(h, err) == [objs |-> h, res |-> 0, err |-> err]
Returned(h, id) == [objs |-> h, res |-> id, err |-> ""]

\* Clone without the copy: the receiver itself is changed and returned.
CloneInPlace(h, o, q) == Returned([h EXCEPT ![o] = q], o)

\* QuerySet._chain(): extra() and order_by() work on a copy, a new object.
Clone(h, o, q) == Returned(Append(h, q), Len(h) + 1)

\* IsEmpty with the test left out.
NeverEmpty(sorted_objects) == FALSE

\* not sorted_objects
IsEmpty(sorted_objects) == sorted_objects = <<>>

\* AnnotatableQuerySet.sort on object o of heap h; m is what iterating it gives.
SortCall(h, o, m, key, reverse) ==
  LET self == h[o]
  IN IF ~m.ok THEN Raised(h, "DatabaseError")
     ELSE IF SortRaises(m.rows, key) THEN Raised(h, "TypeError")
     ELSE LET sorted_objects == PySorted(m.rows, key, reverse)
          IN IF IsEmpty(sorted_objects) THEN Returned(h, o)
             ELSE LET pk_mapping == SortMapping(sorted_objects, Len(sorted_objects))
                      sql == SortSql(pk_mapping)
                  IN Clone(h, o, OrderBy(Extra(self, "sort_order", sql), "sort_order"))

\* DefaultName without the suffix.
DefaultNameBare(annotation) == annotation.attrs[1]

\* f"{annotation}_property"
DefaultName(annotation) == annotation.attrs[1] \o "_property"

\* AnnotateResult with the guard that sort() has: nothing to annotate, return self.
AnnotateResultGuarded(h, o, property_name, sql) ==
  IF sql = <<>> THEN Returned(h, o) ELSE Clone(h, o, Extra(h[o], property_name, sql))

\* return self.extra(select={property_name: sql})
AnnotateResult(h, o, property_name, sql) == Clone(h, o, Extra(h[o], property_name, sql))

\* AnnotatableQuerySet.annotate_property on object o of heap h; m is what iterating
\* it gives.
AnnotateCall(h, o, m, annotation, prop) ==
  IF ~prop.given /\ annotation.kind # "str" THEN Raised(h, "ValueError")
  ELSE LET property_name == IF prop.given THEN prop.name ELSE DefaultName(annotation)
       IN IF ~m.ok THEN Raised(h, "DatabaseError")
          ELSE LET pk_mapping == AnnMapping(m.rows, annotation, Len(m.rows))
               IN AnnotateResult(h, o, property_name, AnnSql(pk_mapping))

\* QuerySet.filter(field=value): the name must be a field of the model; a name
\* that extra(select=...) added is not one the lookup resolves.
FilterCall(h, o, pred) ==
  IF pred.field \notin ModelFields THEN Raised(h, "FieldError")
  ELSE Clone(h, o, [h[o] EXCEPT !.where = Append(@, pred)])

Init ==
  /\ table \in Tables
  /\ objs = <<BaseQs>>
  /\ last = Call("init", 0, NoKey, FALSE, NoProp, NoPred, 0, "")
  /\ pc = "objects"

\* The object the next call of the chain is made on: the one the last call
\* returned, or the one it was made on when it raised.
Receiver == IF last.op = "init" THEN 1 ELSE IF last.res # 0 THEN last.res ELSE last.recv

Advance ==
  /\ pc \in {"objects", "first"}
  /\ pc' = IF pc = "objects" THEN "first" ELSE "chained"
  /\ UNCHANGED table

Sort(m, key, reverse) ==
  /\ Advance
  /\ LET out == SortCall(objs, Receiver, m, key, reverse)
     IN /\ objs' = out.objs
        /\ last' = Call("sort", Receiver, key, reverse, NoProp, NoPred, out.res, out.err)

Annotate(m, annotation, prop) ==
  /\ Advance
  /\ LET out == AnnotateCall(objs, Receiver, m, annotation, prop)
     IN /\ objs' = out.objs
        /\ last' = Call("annotate", Receiver, annotation, FALSE, prop, NoPred, out.res, out.err)

Filter(pred) ==
  /\ Advance
  /\ LET out == FilterCall(objs, Receiver, pred)
     IN /\ objs' = out.objs
        /\ last' = Call("filter", Receiver, NoKey, FALSE, NoProp, pred, out.res, out.err)

\* Iterating the receiver gives the same rows whichever call is made: it is
\* evaluated once and handed to the call.
Next ==
  LET m == Materialize(objs[Receiver])
  IN \/ \E key \in SortKeys, reverse \in BOOLEAN : Sort(m, key, reverse)
     \/ \E a \in AnnotateArgs : Annotate(m, a[1], a[2])
     \/ \E pred \in Preds : Filter(pred)

Spec == Init /\ [][Next]_vars

\* ------------------------------------------------------------ properties
\* What iterating the receiver of the last call gives, and what iterating the
\* object it returned gives.
Input == Materialize(objs[last.recv])
Output == Materialize(objs[last.res])

PosIn(rows, pk) == CHOOSE i \in 1..Len(rows) : rows[i].pk = pk
SameRecords(out, in) ==
  /\ Len(out) = Len(in)
  /\ \A i \in 1..Len(in) : Cardinality({j \in 1..Len(out) : out[j].pk = in[i].pk}) = 1

KeyOf(r) == KeyFn(last.key, r).items
KeyTie(r1, r2) == ~TupLT(KeyOf(r1), KeyOf(r2)) /\ ~TupLT(KeyOf(r2), KeyOf(r1))

\* sort() returned a new collection for a receiver that has records.
SortedSome ==
  /\ last.op = "sort"
  /\ last.err = ""
  /\ Input.ok
  /\ Input.rows # <<>>

\* C1: after sort(C, k, reverse) on a non-empty C, iterating the result gives C's
\* records, never decreasing in k (never increasing with reverse), and two
\* records with equal keys come in the order C's iteration gave them.
C1_SortIsStableSort ==
  (last.op = "sort" /\ last.err = "") =>
    LET in == Input
    IN (in.ok /\ in.rows # <<>>) =>
         /\ last.res # 0
         /\ LET out == Output
            IN /\ out.ok
               /\ SameRecords(out.rows, in.rows)
               /\ \A i, j \in 1..Len(out.rows) :
                    i < j =>
                      LET a == out.rows[i]
                          b == out.rows[j]
                      IN /\ IF last.reverse THEN ~TupLT(KeyOf(a), KeyOf(b))
                                            ELSE ~TupLT(KeyOf(b), KeyOf(a))
                         /\ KeyTie(a, b) => PosIn(in.rows, a.pk) < PosIn(in.rows, b.pk)

\* A reversed sort of two or more records, two of them with equal keys.
C1_Witness ==
  /\ SortedSome
  /\ last.reverse
  /\ last.res # 0
  /\ LET in == Input
     IN \E i, j \in 1..Len(in.rows) : i < j /\ KeyTie(in.rows[i], in.rows[j])

\* The output name annotate_property was called for.
PropertyName ==
  IF last.prop.given THEN last.prop.name ELSE last.key.attrs[1] \o "_property"

\* C2: after annotate_property(C, k, name) on a C that has records, iterating the
\* result gives every record r of C with its attribute `name` equal to k(r).
C2_ReadBackEqualsKey ==
  (last.op = "annotate" /\ last.err = "") =>
    LET in == Input
    IN (in.ok /\ in.rows # <<>>) =>
         LET out == Output
         IN /\ out.ok
            /\ SameRecords(out.rows, in.rows)
            /\ \A i \in 1..Len(out.rows) :
                 /\ HasKey(out.rows[i].extras, PropertyName)
                 /\ PyEq(Lookup(out.rows[i].extras, PropertyName), KeyOf(out.rows[i])[1])

\* The rows of a collection that pass filter(field=value), field being a field of
\* the model or a computed field of the collection.
FieldOf(r, field) ==
  IF field \in ModelFields THEN GetAttr(r, field) ELSE Lookup(r.extras, field)
Restricted(rows, p) == SelectSeq(rows, LAMBDA r : PyEq(FieldOf(r, p.field), p.value))

\* C3: filter(field=value), chained on what sort() or annotate_property()
\* returned, succeeds for a field of the model and for the computed field, and
\* gives exactly the records of that collection that pass, in its order.
C3_ChainedFilter ==
  (/\ last.op = "filter"
   /\ objs[last.recv].extra # <<>>
   /\ last.pred.field \in ModelFields \/ HasKey(objs[last.recv].extra, last.pred.field)) =>
    LET in == Input
    IN in.ok =>
         /\ last.err = ""
         /\ last.res # 0
         /\ LET out == Output
                want == Restricted(in.rows, last.pred)
            IN /\ out.ok
               /\ [i \in 1..Len(out.rows) |-> out.rows[i].pk]
                    = [i \in 1..Len(want) |-> want[i].pk]

\* The receiver of the call this step makes iterates without error and has no
\* record.
EmptyReceiver == Materialize(objs[last'.recv]).ok /\ Materialize(objs[last'.recv]).rows = <<>>

\* C4: a step that calls sort() on an empty collection raises nothing, returns
\* the receiver itself and makes or changes no object: no CASE expression, no
\* sort_order field and no ordering are added.
C4_EmptySortReturnsSelf ==
  [][(last'.op = "sort" /\ pc' # pc /\ EmptyReceiver) =>
       /\ last'.err = ""
       /\ last'.res = last'.recv
       /\ objs' = objs]_vars

\* sort(reverse=True) was called on a collection that a filter left empty.
C4_Witness ==
  /\ last.op = "sort"
  /\ last.reverse
  /\ last.res = last.recv
  /\ table # <<>>
  /\ objs[last.recv].where # <<>>
  /\ Input.ok /\ Input.rows = <<>>

ExtraNames(q) == {q.extra[i].k : i \in 1..Len(q.extra)}

\* C5: annotate_property with no name and a callable raises ValueError; with no
\* name and the attribute name attr, the field it adds is "<attr>_property"; with
\* a name, the field it adds has that name.
C5_OutputName ==
  last.op = "annotate" =>
    /\ (~last.prop.given /\ last.key.kind = "callable") =>
         (last.err = "ValueError" /\ last.res = 0)
    /\ (~last.prop.given /\ last.key.kind = "str" /\ last.err = "") =>
         /\ last.res # 0
         /\ ExtraNames(objs[last.res])
              = ExtraNames(objs[last.recv]) \cup {last.key.attrs[1] \o "_property"}
    /\ (last.prop.given /\ last.err = "") =>
         /\ last.res # 0
         /\ ExtraNames(objs[last.res]) = ExtraNames(objs[last.recv]) \cup {last.prop.name}

\* annotate_property("name") with no output name returned a collection.
C5_Witness ==
  /\ last.op = "annotate"
  /\ ~last.prop.given
  /\ last.key = StrKey("name")
  /\ last.err = ""
  /\ "name_property" \in ExtraNames(objs[last.res])

\* C6: after sort(C, key=(a, b)), iterating the result gives C's records ordered
\* by attribute a, records equal in a ordered by attribute b, and records equal
\* in both in the order C's iteration gave them.
C6_TupleKeyIsLexicographic ==
  (last.op = "sort" /\ last.key.kind = "tuple" /\ ~last.reverse /\ last.err = "") =>
    LET in == Input
        A(r) == IF last.key.attrs[1] = "cost" THEN r.cost ELSE r.price
        B(r) == IF last.key.attrs[2] = "cost" THEN r.cost ELSE r.price
    IN (in.ok /\ in.rows # <<>>) =>
         /\ last.res # 0
         /\ LET out == Output
            IN /\ out.ok
               /\ SameRecords(out.rows, in.rows)
               /\ \A i, j \in 1..Len(out.rows) :
                    i < j =>
                      LET x == out.rows[i]
                          y == out.rows[j]
                      IN \/ A(x) < A(y)
                         \/ A(x) = A(y) /\ B(x) < B(y)
                         \/ /\ A(x) = A(y) /\ B(x) = B(y)
                            /\ PosIn(in.rows, x.pk) < PosIn(in.rows, y.pk)

\* A tuple-key sort in which two records equal in the first attribute had to be
\* exchanged because of the second.
C6_Witness ==
  /\ last.op = "sort" /\ last.key.kind = "tuple" /\ ~last.reverse /\ last.err = ""
  /\ last.res # 0
  /\ LET in == Input
         out == Output
     IN /\ in.ok /\ out.ok
        /\ \E i, j \in 1..Len(in.rows) :
             /\ i < j
             /\ in.rows[i].cost = in.rows[j].cost
             /\ PosIn(out.rows, in.rows[j].pk) < PosIn(out.rows, in.rows[i].pk)

\* The branches of the CASE expression the last call attached under `name`.
Branches(name) == Lookup(objs[last.res].extra, name)
BranchId(b) == SqlLiteral(b.pk).v.n

\* C7: the CASE expression sort() (on a non-empty collection) or
\* annotate_property() attaches has, for every record of the collection, exactly
\* one branch with its identifier, and no branch with another identifier; the
\* branches of sort() hold the ranks 0, 1, ..., n-1 in this order.
C7_OneBranchPerRecord ==
  (last.op \in {"sort", "annotate"} /\ last.err = "") =>
    LET in == Input
    IN (in.ok /\ (last.op = "sort" => in.rows # <<>>)) =>
         /\ last.res # 0
         /\ LET name == IF last.op = "sort" THEN "sort_order" ELSE PropertyName
                br == Branches(name)
            IN /\ HasKey(objs[last.res].extra, name)
               /\ \A i \in 1..Len(in.rows) :
                    Cardinality({b \in 1..Len(br) : BranchId(br[b]) = in.rows[i].pk}) = 1
               /\ \A b \in 1..Len(br) :
                    /\ SqlLiteral(br[b].pk).ok
                    /\ \E i \in 1..Len(in.rows) : in.rows[i].pk = BranchId(br[b])
               /\ last.op = "sort" =>
                    \A b \in 1..Len(br) : SqlLiteral(br[b].val) = SqlOk(IntV(b - 1))

\* sort() built its expression for two or more records.
C7_Witness ==
  /\ SortedSome
  /\ last.res # 0
  /\ Len(Branches("sort_order")) >= 2

\* C8: a step changes no row of the table and no queryset object that existed
\* before it, whether the call returns or raises; and the collection that sort()
\* or annotate_property() returns for a receiver with records is a new object.
C8_ReceiverUntouched ==
  [][/\ table' = table
     /\ Len(objs') >= Len(objs)
     /\ \A o \in 1..Len(objs) : objs'[o] = objs[o]
     /\ (/\ last'.op \in {"sort", "annotate"}
         /\ last'.err = ""
         /\ Materialize(objs[last'.recv]).rows # <<>>) =>
          (last'.res = Len(objs) + 1 /\ last'.res # last'.recv)]_vars

\* A call returned a new collection, and a later call on that one raised.
C8_Witness ==
  /\ pc = "chained"
  /\ Len(objs) = 2
  /\ last.recv = 2
  /\ last.op \in {"sort", "annotate"}
  /\ last.err # ""

\* C9: annotate_property() on an empty collection does not return the receiver:
\* it returns a new collection whose computed field is a CASE expression with no
\* branch, which the database refuses.
C9_EmptyAnnotateIsMalformed ==
  (last.op = "annotate" /\ last.err = "") =>
    LET in == Input
    IN (in.ok /\ in.rows = <<>>) =>
         /\ last.res # 0
         /\ last.res # last.recv
         /\ HasKey(objs[last.res].extra, PropertyName)
         /\ Branches(PropertyName) = <<>>
         /\ ~Output.ok

\* annotate_property() was called on a collection that a filter left empty.
C9_Witness ==
  /\ last.op = "annotate" /\ last.err = ""
  /\ table # <<>>
  /\ Input.ok /\ Input.rows = <<>>

\* The rank the receiver's own sort gave a record.
Rank1(r) == Lookup(r.extras, "sort_order").n

\* C10: after sort(sort(C, k1), k2), iterating the result gives the records in
\* the order of k2 and, for equal k2, in the order the first sort gave them; the
\* result has one sort_order field and is ordered by it alone.
C10_SecondSortRefines ==
  (last.op = "sort" /\ last.err = "" /\ HasKey(objs[last.recv].extra, "sort_order")) =>
    LET in == Input
    IN (in.ok /\ in.rows # <<>>) =>
         /\ last.res # 0
         /\ objs[last.res].order = <<"sort_order">>
         /\ Cardinality({e \in 1..Len(objs[last.res].extra) :
                           objs[last.res].extra[e].k = "sort_order"}) = 1
         /\ LET out == Output
            IN /\ out.ok
               /\ SameRecords(out.rows, in.rows)
               /\ \A i, j \in 1..Len(out.rows) :
                    i < j =>
                      LET a == out.rows[i]
                          b == out.rows[j]
                          ra == in.rows[PosIn(in.rows, a.pk)]
                          rb == in.rows[PosIn(in.rows, b.pk)]
                      IN /\ IF last.reverse THEN ~TupLT(KeyOf(a), KeyOf(b))
                                            ELSE ~TupLT(KeyOf(b), KeyOf(a))
                         /\ KeyTie(a, b) => Rank1(ra) < Rank1(rb)

\* A second sort whose key ties two records that the first sort had exchanged.
C10_Witness ==
  /\ last.op = "sort" /\ last.err = "" /\ last.res # 0
  /\ HasKey(objs[last.recv].extra, "sort_order")
  /\ LET in == Input
     IN /\ in.ok
        /\ \E i, j \in 1..Len(in.rows) :
             /\ i < j
             /\ KeyTie(in.rows[i], in.rows[j])
             /\ PosIn(table, in.rows[j].pk) < PosIn(table, in.rows[i].pk)

====
